---- MODULE Spec2Model ----
(***************************************************************************)
(* Model of the retrieval and indexing subsystem of the Banking RAG        *)
(* service: BankingRAGService (src/src/core/rag_service.py) with its       *)
(* Document Store (self.documents), Vector Index (self.index, a            *)
(* faiss.IndexFlatIP), the two persisted artifacts, the embedding path     *)
(* and the lexical path of retrieve_documents, and the maintenance         *)
(* operations add_document, remove_document and rebuild_index.             *)
(*                                                                         *)
(* Numbers.  Vectors are tuples of integers over a common denominator and  *)
(* every raw vector used has an integral L2 norm, so normalisation and     *)
(* inner products are exact rationals; float32 rounding is not modelled.   *)
(* Lexical scores are kept in tenths (2.0 is 20, 0.5 is 5, 0.2 is 2,       *)
(* 3.0 is 30, 1.5 is 15).  A relevance score is a rational [n, d], d > 0.  *)
(*                                                                         *)
(* Text.  Strings are tuples of one-character strings, so that lower(),    *)
(* split(), strip(), count() and the substring test are computed as        *)
(* Python computes them.  The knowledge base is reduced to its first       *)
(* document, with a shortened content.                                     *)
(***************************************************************************)
EXTENDS Integers, Sequences, FiniteSets, TLC

\* None: Python's None (no embedding on a document, no index on the service);
\* the empty tuple, which no vector and no index equals
None == << >>

Range(s) == { s[i] : i \in 1..Len(s) }

Min(a, b) == IF a <= b THEN a ELSE b

Max(a, b) == IF a >= b THEN a ELSE b

RECURSIVE SumSeq(_)
SumSeq(s) == IF s = << >> THEN 0 ELSE Head(s) + SumSeq(Tail(s))

(***************************************************************************)
(* Python string operations used by _mock_retrieval.                       *)
(***************************************************************************)
UpperCase ==
    <<"A","B","C","D","E","F","G","H","I","J","K","L","M",
      "N","O","P","Q","R","S","T","U","V","W","X","Y","Z">>

LowerCase ==
    <<"a","b","c","d","e","f","g","h","i","j","k","l","m",
      "n","o","p","q","r","s","t","u","v","w","x","y","z">>

\* str.lower() on one character
LowerChar(c) ==
    IF \E i \in 1..Len(UpperCase) : UpperCase[i] = c
    THEN LowerCase[CHOOSE i \in 1..Len(UpperCase) : UpperCase[i] = c]
    ELSE c

\* str.lower()
Lower(s) == [i \in 1..Len(s) |-> LowerChar(s[i])]

\* the characters of word.strip('.,!?;:()[]{}')
StripChars == {".", ",", "!", "?", ";", ":", "(", ")", "[", "]", "{", "}"}

\* the whitespace str.split() splits on
WhiteSpace == {" "}

\* str.strip(chars): drop leading and trailing characters of StripChars
Strip(w) ==
    LET keep == { i \in 1..Len(w) : w[i] \notin StripChars }
    IN  IF keep = {} THEN << >>
        ELSE LET lo == CHOOSE i \in keep : \A j \in keep : i <= j
                 hi == CHOOSE i \in keep : \A j \in keep : i >= j
             IN  SubSeq(w, lo, hi)

\* str.split(): the maximal runs of non-whitespace characters, in order
RECURSIVE SplitFrom(_, _, _)
SplitFrom(s, i, cur) ==
    IF i > Len(s)
    THEN IF cur = << >> THEN << >> ELSE << cur >>
    ELSE IF s[i] \in WhiteSpace
         THEN IF cur = << >> THEN SplitFrom(s, i + 1, << >>)
              ELSE << cur >> \o SplitFrom(s, i + 1, << >>)
         ELSE SplitFrom(s, i + 1, Append(cur, s[i]))

Split(s) == SplitFrom(s, 1, << >>)

\* w in s (substring test)
IsSub(w, s) ==
    \E i \in 1..(Len(s) - Len(w) + 1) : SubSeq(s, i, i + Len(w) - 1) = w

\* s.count(w): non-overlapping occurrences, scanning from the left
RECURSIVE CountFrom(_, _, _)
CountFrom(w, s, i) ==
    IF i + Len(w) - 1 > Len(s) THEN 0
    ELSE IF SubSeq(s, i, i + Len(w) - 1) = w
         THEN 1 + CountFrom(w, s, i + Len(w))
         ELSE CountFrom(w, s, i + 1)

Count(w, s) == CountFrom(w, s, 1)

\* seq[:k] for any integer k (a negative k drops the last -k elements)
Slice(s, k) ==
    IF k >= 0 THEN SubSeq(s, 1, Min(k, Len(s)))
    ELSE SubSeq(s, 1, Max(Len(s) + k, 0))

(***************************************************************************)
(* The knowledge base texts (title, content, category), the texts a       *)
(* caller adds, and the queries.                                           *)
(***************************************************************************)
Title1 ==
    \* "Personal Loan Requirements"
    <<"P","e","r","s","o","n","a","l"," ","L","o","a","n"," ","R","e","q","u","i","r","e","m","e","n","t","s">>

Content1 ==
    \* "Personal loan requirements include good credit score."
    <<"P","e","r","s","o","n","a","l"," ","l","o","a","n"," ","r","e","q","u","i","r","e","m","e","n","t","s"," ","i","n","c","l","u","d","e"," ","g","o","o","d"," ","c","r","e","d","i","t"," ","s","c","o","r","e",".">>

Category1 ==
    \* "loans"
    <<"l","o","a","n","s">>

Title2 ==
    \* "Savings Account Features"
    <<"S","a","v","i","n","g","s"," ","A","c","c","o","u","n","t"," ","F","e","a","t","u","r","e","s">>

Content2 ==
    \* "Our savings accounts offer online and mobile banking access."
    <<"O","u","r"," ","s","a","v","i","n","g","s"," ","a","c","c","o","u","n","t","s"," ","o","f","f","e","r"," ","o","n","l","i","n","e"," ","a","n","d"," ","m","o","b","i","l","e"," ","b","a","n","k","i","n","g"," ","a","c","c","e","s","s",".">>

Category2 ==
    \* "accounts"
    <<"a","c","c","o","u","n","t","s">>

Title3 ==
    \* "Mobile Banking Security"
    <<"M","o","b","i","l","e"," ","B","a","n","k","i","n","g"," ","S","e","c","u","r","i","t","y">>

Content3 ==
    \* "Mobile banking security includes fraud protection."
    <<"M","o","b","i","l","e"," ","b","a","n","k","i","n","g"," ","s","e","c","u","r","i","t","y"," ","i","n","c","l","u","d","e","s"," ","f","r","a","u","d"," ","p","r","o","t","e","c","t","i","o","n",".">>

Category3 ==
    \* "security"
    <<"s","e","c","u","r","i","t","y">>

Query1 ==
    \* "personal loan or mobile savings account?"
    <<"p","e","r","s","o","n","a","l"," ","l","o","a","n"," ","o","r"," ","m","o","b","i","l","e"," ","s","a","v","i","n","g","s"," ","a","c","c","o","u","n","t","?">>

Query2 ==
    \* "hi"
    <<"h","i">>

\* the text fields of a document, by text number
TextOf(t) ==
    CASE t = 1 -> [title |-> Title1, content |-> Content1, category |-> Category1]
      [] t = 2 -> [title |-> Title2, content |-> Content2, category |-> Category2]
      [] OTHER -> [title |-> Title3, content |-> Content3, category |-> Category3]

Query3 ==
    \* "loans"
    <<"l","o","a","n","s">>

Query4 ==
    \* "personal loan requirements"
    <<"p","e","r","s","o","n","a","l"," ","l","o","a","n"," ","r","e","q","u","i","r","e","m","e","n","t","s">>

Query5 ==
    \* "What are personal loan requirements?"
    <<"W","h","a","t"," ","a","r","e"," ","p","e","r","s","o","n","a","l"," ","l","o","a","n"," ","r","e","q","u","i","r","e","m","e","n","t","s","?">>

QueryText(q) ==
    CASE q = 1 -> Query1
      [] q = 2 -> Query2
      [] q = 3 -> Query3
      [] q = 4 -> Query4
      [] OTHER -> Query5

\* the synonym table of _mock_retrieval, verbatim
banking_terms ==
    <<
      \* loan
      << <<"l","o","a","n">>,
         <<"l","e","n","d","i","n","g">>,
         <<"c","r","e","d","i","t">>,
         <<"f","i","n","a","n","c","i","n","g">>,
         <<"b","o","r","r","o","w">> >>,
      \* auto
      << <<"a","u","t","o">>,
         <<"c","a","r">>,
         <<"v","e","h","i","c","l","e">>,
         <<"a","u","t","o","m","o","t","i","v","e">> >>,
      \* home
      << <<"h","o","m","e">>,
         <<"h","o","u","s","e">>,
         <<"p","r","o","p","e","r","t","y">>,
         <<"r","e","a","l"," ","e","s","t","a","t","e">>,
         <<"m","o","r","t","g","a","g","e">> >>,
      \* heloc
      << <<"h","e","l","o","c">>,
         <<"e","q","u","i","t","y">>,
         <<"l","i","n","e"," ","o","f"," ","c","r","e","d","i","t">> >>,
      \* student
      << <<"s","t","u","d","e","n","t">>,
         <<"e","d","u","c","a","t","i","o","n">>,
         <<"c","o","l","l","e","g","e">>,
         <<"s","c","h","o","o","l">> >>,
      \* youth
      << <<"y","o","u","t","h">>,
         <<"y","o","u","n","g">>,
         <<"t","e","e","n">>,
         <<"s","t","u","d","e","n","t">> >>,
      \* business
      << <<"b","u","s","i","n","e","s","s">>,
         <<"c","o","m","m","e","r","c","i","a","l">>,
         <<"c","o","r","p","o","r","a","t","e">> >>,
      \* senior
      << <<"s","e","n","i","o","r">>,
         <<"e","l","d","e","r","l","y">>,
         <<"r","e","t","i","r","e","m","e","n","t">> >>,
      \* investment
      << <<"i","n","v","e","s","t","m","e","n","t">>,
         <<"p","o","r","t","f","o","l","i","o">>,
         <<"w","e","a","l","t","h">> >>,
      \* digital
      << <<"d","i","g","i","t","a","l">>,
         <<"o","n","l","i","n","e">>,
         <<"m","o","b","i","l","e">>,
         <<"a","p","p">> >>,
      \* insurance
      << <<"i","n","s","u","r","a","n","c","e">>,
         <<"p","r","o","t","e","c","t","i","o","n">>,
         <<"c","o","v","e","r","a","g","e">> >>,
      \* international
      << <<"i","n","t","e","r","n","a","t","i","o","n","a","l">>,
         <<"f","o","r","e","i","g","n">>,
         <<"g","l","o","b","a","l">> >>
    >>


TextIds == {1, 2, 3}

QueryIds == {1, 2}

\* the queries put to the lexical ranker alone
AllQueryIds == {1, 2, 3, 4, 5}

(***************************************************************************)
(* Lexical ranker: BankingRAGService._mock_retrieval.                      *)
(***************************************************************************)
\* query_words: the stripped words of the lowered query longer than 2
query_words(query) ==
    LET words == Split(Lower(query))
        stripped == [i \in 1..Len(words) |-> Strip(words[i])]
    IN  SelectSeq(stripped, LAMBDA w : Len(w) > 2)

\* the raw score of one document for the query words, in tenths
RawScore(words, t) ==
    LET doc_content_lower == Lower(TextOf(t).content)
        doc_title_lower == Lower(TextOf(t).title)
        doc_category_lower == Lower(TextOf(t).category)
        content_words == Split(doc_content_lower)
        keyword(w) ==
            (IF IsSub(w, doc_title_lower) THEN 20 ELSE 0)
            + 5 * Count(w, doc_content_lower)
            + (IF Len(w) > 4
               THEN 2 * Cardinality({ i \in 1..Len(content_words) :
                                        \/ IsSub(w, content_words[i])
                                        \/ IsSub(content_words[i], w) })
               ELSE 0)
        category(w) == IF IsSub(w, doc_category_lower) THEN 30 ELSE 0
        terms(w, r) ==
            IF w \in Range(banking_terms[r])
            THEN 15 * Cardinality({ j \in 1..Len(banking_terms[r]) :
                                      \/ IsSub(banking_terms[r][j], doc_content_lower)
                                      \/ IsSub(banking_terms[r][j], doc_title_lower) })
            ELSE 0
        special(w) == SumSeq([r \in 1..Len(banking_terms) |-> terms(w, r)])
    IN  SumSeq([i \in 1..Len(words) |-> keyword(words[i])])
        + SumSeq([i \in 1..Len(words) |-> category(words[i])])
        + SumSeq([i \in 1..Len(words) |-> special(words[i])])

\* the raw score and the number of query words of every (query, text) pair
ScoreTable ==
    [q \in AllQueryIds |->
        [t \in TextIds |->
            [raw |-> RawScore(query_words(QueryText(q)), t),
             nwords |-> Len(query_words(QueryText(q)))]]]

\* normalized_score = min(score / (len(query_words) * 3.0), 1.0)
NormalizedScore(raw, nwords) ==
    [n |-> Min(raw, nwords * 30), d |-> nwords * 30]

\* a > b for two rational scores
ScoreGt(a, b) == a.n * b.d > b.n * a.d

RemoveAt(s, i) == SubSeq(s, 1, i - 1) \o SubSeq(s, i + 1, Len(s))

\* scored_docs without the sort of line 316: the list as it was built
Unsorted(s) == s

\* list.sort(key=score, reverse=True): descending and stable
RECURSIVE SortByScore(_)
SortByScore(s) ==
    IF s = << >> THEN << >>
    ELSE LET best == { i \in 1..Len(s) :
                         \A j \in 1..Len(s) : ~ScoreGt(s[j].score, s[i].score) }
             first == CHOOSE i \in best : \A j \in best : i <= j
         IN  << s[first] >> \o SortByScore(RemoveAt(s, first))

\* RetrievalResult.__post_init__ without its test: every score passes
AnyScore(score) == TRUE

\* RetrievalResult.__post_init__: 0.0 <= relevance_score <= 1.0
ValidScore(score) == 0 <= score.n /\ score.n <= score.d

\* _mock_retrieval without the "if score > 0" of line 309: the documents
\* that score nothing stay in the list
MockRetrievalKeepingZero(docs, q, top_k) ==
    LET entry(i) == [document |-> docs[i],
                     score |-> NormalizedScore(ScoreTable[q][docs[i].text].raw,
                                               ScoreTable[q][docs[i].text].nwords),
                     pos |-> i]
        scored_docs == SortByScore([i \in 1..Len(docs) |-> entry(i)])
        top == Slice(scored_docs, top_k)
    IN  [i \in 1..Len(top) |->
            [document |-> top[i].document,
             relevance_score |-> top[i].score,
             rank |-> i,
             from_vector |-> None]]

\* _mock_retrieval without the "if score > 0" of line 309 and without the
\* sort of line 316: the first top_k documents of the store
MockRetrievalInStoreOrder(docs, q, top_k) ==
    LET top == Slice(docs, top_k)
    IN  [i \in 1..Len(top) |->
            [document |-> top[i],
             relevance_score |-> NormalizedScore(ScoreTable[q][top[i].text].raw,
                                                 ScoreTable[q][top[i].text].nwords),
             rank |-> i,
             from_vector |-> None]]

\* _mock_retrieval(query, top_k) over the documents docs
MockRetrieval(docs, q, top_k) ==
    LET entry(i) == [document |-> docs[i],
                     score |-> NormalizedScore(ScoreTable[q][docs[i].text].raw,
                                               ScoreTable[q][docs[i].text].nwords),
                     pos |-> i]
        positive == SelectSeq([i \in 1..Len(docs) |-> i],
                              LAMBDA i : ScoreTable[q][docs[i].text].raw > 0)
        scored_docs == SortByScore([j \in 1..Len(positive) |-> entry(positive[j])])
        top == Slice(scored_docs, top_k)
    IN  [i \in 1..Len(top) |->
            [document |-> top[i].document,
             relevance_score |-> top[i].score,
             rank |-> i,
             from_vector |-> None]]

(***************************************************************************)
(* Vectors, the embedding provider and the FAISS inner-product index.      *)
(***************************************************************************)
\* self.embedding_dimension (1536 in the code, 2 here)
embedding_dimension == 2

\* the directions the deployment's embedding model can return vectors in:
\* the index dimension, or another one (a model of a different size)
ModelDimensions == {embedding_dimension, embedding_dimension + 1}

SumSq(c) == SumSeq([i \in 1..Len(c) |-> c[i] * c[i]])

\* np.linalg.norm of a vector whose norm is integral
Norm(c) == CHOOSE r \in 0..SumSq(c) : r * r = SumSq(c)

\* a vector put into the index as it is, without the division by its norm
Unnormalized(c) == [c |-> c, d |-> 1]

\* v / np.linalg.norm(v), without the 1e-8: the zero vector is divided by 0
NormalizeWithoutEpsilon(c) == [c |-> c, d |-> Norm(c)]

\* v / (np.linalg.norm(v) + 1e-8): the zero vector stays the zero vector
Normalize(c) == [c |-> c, d |-> IF Norm(c) = 0 THEN 1 ELSE Norm(c)]

\* the vectors the embedding provider returns for the document texts
DocVectors == << <<3, 4>>, <<4, 3>>, <<-4, 3>> >>

\* the vectors the embedding provider returns for the queries
QueryVectors == << <<4, 3>>, <<0, 0>> >>

\* a text handed to the provider: a document content or a query
DocInput(t) == [kind |-> "content", n |-> t]

QueryInput(q) == [kind |-> "query", n |-> q]

\* client.embeddings.create on one text, for a model of dimension dim
ProviderVector(input, dim) ==
    IF dim = embedding_dimension
    THEN IF input.kind = "content" THEN DocVectors[input.n]
         ELSE QueryVectors[input.n]
    ELSE [i \in 1..dim |-> IF i = 1 THEN 1 ELSE 2]

\* _generate_mock_embeddings(count): np.random.seed(42) makes the i-th
\* vector of every call the same; components lie in [0, 1)
MockVector(i) == << 2 * i + 1, 2 * i * (i + 1) >>

generate_mock_embeddings(count) == [i \in 1..count |-> MockVector(i)]

\* _generate_embeddings(texts): ok is whether the provider calls succeed
generate_embeddings(hasClient, dim, inputs, ok) ==
    IF ~hasClient THEN generate_mock_embeddings(Len(inputs))
    ELSE IF ok THEN [i \in 1..Len(inputs) |-> ProviderVector(inputs[i], dim)]
         ELSE generate_mock_embeddings(Len(inputs))

\* faiss.IndexFlatIP(self.embedding_dimension)
NewIndex == [d |-> embedding_dimension, vectors |-> << >>]

\* index.add(matrix) is refused when the matrix width is not index.d
CanAdd(idx, vecs) == \A i \in 1..Len(vecs) : Len(vecs[i].c) = idx.d

IndexAdd(idx, vecs) == [idx EXCEPT !.vectors = @ \o vecs]

\* index.ntotal; no index holds no vectors
IndexSize(idx) == IF idx = None THEN 0 ELSE Len(idx.vectors)

InnerProduct(a, b) ==
    [n |-> SumSeq([i \in 1..Len(a.c) |-> a.c[i] * b.c[i]]), d |-> a.d * b.d]

\* the score of a padded "no match" position (-3.4e38)
NoMatchScore == [n |-> -2, d |-> 1]

\* index.search(query, k): refused for a query of another width or k <= 0
CanSearch(idx, query, k) == Len(query.c) = idx.d /\ k > 0

\* index.search(query, k): k (score, position) pairs, best first, ties by
\* ascending position, padded with position -1; positions count from 0
IndexSearch(idx, query, k) ==
    LET hits == SortByScore([i \in 1..Len(idx.vectors) |->
                    [score |-> InnerProduct(query, idx.vectors[i]), idx |-> i - 1]])
    IN  [i \in 1..k |->
            IF i <= Len(hits) THEN hits[i]
            ELSE [score |-> NoMatchScore, idx |-> -1]]

\* documents[doc_idx] raises no IndexError for the positions the loop
\* keeps (doc_idx < len(documents)); -1 on an empty list raises
InRange(docs, i) == i < Len(docs) => (0 - i) <= Len(docs) \/ i >= 0

\* documents[doc_idx] with Python's indexing (a negative index counts
\* from the end)
PyAt(docs, i) == IF i >= 0 THEN docs[i + 1] ELSE docs[Len(docs) + i + 1]

\* the loop of retrieve_documents over the search output: the results
\* built for the positions with doc_idx < len(documents)
SearchResults(docs, idx, found) ==
    LET kept == SelectSeq([i \in 1..Len(found) |-> i],
                          LAMBDA i : found[i].idx < Len(docs))
    IN  [j \in 1..Len(kept) |->
            [document |-> PyAt(docs, found[kept[j]].idx),
             relevance_score |-> found[kept[j]].score,
             rank |-> kept[j],
             from_vector |-> IF found[kept[j]].idx >= 0
                             THEN idx.vectors[found[kept[j]].idx + 1]
                             ELSE None]]

\* retrieve_documents(query, top_k) once the guards of lines 214-218 have
\* passed with a client: the embedding path, and the lexical path whenever
\* anything in it raises
EmbeddingRetrieval(docs, idx, dim, q, top_k, ok) ==
    LET query_embedding ==
            Normalize(generate_embeddings(TRUE, dim, << QueryInput(q) >>, ok)[1])
        found == IndexSearch(idx, query_embedding, top_k)
        results == SearchResults(docs, idx, found)
    IN  IF /\ CanSearch(idx, query_embedding, top_k)
           /\ \A i \in 1..Len(found) : InRange(docs, found[i].idx)
           /\ \A i \in 1..Len(results) : ValidScore(results[i].relevance_score)
        THEN [path |-> "embedding", results |-> results]
        ELSE [path |-> "fallback", results |-> MockRetrieval(docs, q, top_k)]

(***************************************************************************)
(* Bounds of the model.                                                    *)
(***************************************************************************)
\* document ids are 1..NumIds; the knowledge base owns the first
NumIds == 2

\* top_k ranges over -1..MaxTopK
MaxTopK == 2

\* add_document is not called on a store of MaxDocs documents, nor on an
\* index of MaxDocs vectors
MaxDocs == NumIds

DocIds == 1..NumIds

\* the request threads of the server
Threads == {1, 2}

TopKs == (0 - 1)..MaxTopK

\* the text of the document a caller adds under an id
AddText(id) == IF id <= 2 THEN id ELSE 3

\* how one _save_index call can end: both files written; nothing written
\* (makedirs or write_index failed); the index written and the documents
\* file not opened; the index written and the documents file truncated
SaveOutcomes == {"saved", "index_failed", "docs_open_failed", "docs_dump_failed"}

\* how a _save_index call can end on a data directory that is writable
\* throughout (ok) and on one that is not
SaveOutcomesOn(ok) == IF ok THEN {"saved"} ELSE SaveOutcomes

(***************************************************************************)
(* The state of one deployment.                                            *)
(***************************************************************************)
VARIABLES
    credentials,     \* AZURE_OPENAI_API_KEY and ..._ENDPOINT are set
    provider_up,     \* the embedding provider answers the calls made to it
    model_dim,       \* the width of the vectors the configured model returns
    disk_ok,         \* the data directory stays writable
    client,          \* self.client is not None
    documents,       \* self.documents
    index,           \* self.index: None or [d, vectors]
    is_initialized,  \* self.is_initialized
    index_file,      \* data/banking_vector_index.faiss
    docs_file,       \* data/banking_vector_index_docs.pkl
    ret,             \* the last call: its name, arguments and outcome
    threads,         \* the request threads: where each is in its call
    removed          \* the id last removed with success and not added again
                     \* since, 0 when there is none

vars == << credentials, provider_up, model_dim, disk_ok, client, documents, index, is_initialized,
           index_file, docs_file, ret, threads, removed >>

env == << credentials, provider_up, model_dim, disk_ok >>

disk == << index_file, docs_file >>

\* get_banking_knowledge_base(): fresh documents without embeddings
get_banking_knowledge_base ==
    << [id |-> 1, text |-> 1, embedding |-> None] >>

Ids(docs) == { docs[i].id : i \in 1..Len(docs) }

MissingFile == [state |-> "missing"]

CorruptFile == [state |-> "corrupt"]

StoredFile(data) == [state |-> "stored", data |-> data]

\* _create_vector_index on the documents docs, the index being idx before
CreateVectorIndex(docs, idx, hasClient, dim, ok) ==
    IF docs = << >>
    THEN [raised |-> TRUE, documents |-> docs, index |-> idx]
    ELSE LET texts == [i \in 1..Len(docs) |-> DocInput(docs[i].text)]
             embeddings == generate_embeddings(hasClient, dim, texts, ok)
             embedded == [i \in 1..Len(docs) |->
                             [docs[i] EXCEPT !.embedding = embeddings[i]]]
             embedding_matrix == [i \in 1..Len(docs) |-> Normalize(embeddings[i])]
         IN  IF CanAdd(NewIndex, embedding_matrix)
             THEN [raised |-> FALSE, documents |-> embedded,
                   index |-> IndexAdd(NewIndex, embedding_matrix)]
             ELSE [raised |-> TRUE, documents |-> embedded, index |-> NewIndex]

\* faiss.write_index: the dimension, the number of vectors and the
\* components of the vectors one after the other, each a float32
write_index(idx) ==
    [d |-> idx.d,
     ntotal |-> Len(idx.vectors),
     codes |-> [k \in 1..(Len(idx.vectors) * idx.d) |->
                    LET v == idx.vectors[((k - 1) \div idx.d) + 1]
                    IN  [n |-> v.c[((k - 1) % idx.d) + 1], d |-> v.d]]]

\* faiss.read_index: the index with the vectors cut out of the components
read_index(data) ==
    [d |-> data.d,
     vectors |-> [i \in 1..data.ntotal |->
                    [c |-> [j \in 1..data.d |-> data.codes[(i - 1) * data.d + j].n],
                     d |-> data.codes[(i - 1) * data.d + 1].d]]]

\* pickle.dump(self.documents) without the embedding attribute of the
\* documents
PickleWithoutEmbeddings(docs) ==
    [count |-> Len(docs),
     objects |-> [k \in 1..(3 * Len(docs)) |->
                    LET doc == docs[((k - 1) \div 3) + 1]
                    IN  CASE (k - 1) % 3 = 0 -> [attr |-> "id", value |-> doc.id]
                          [] (k - 1) % 3 = 1 -> [attr |-> "text", value |-> doc.text]
                          [] OTHER -> [attr |-> "embedding", value |-> None]]]

\* pickle.dump(self.documents): the list as a stream of the attributes of
\* its documents, the embedding among them
pickle_dump(docs) ==
    [count |-> Len(docs),
     objects |-> [k \in 1..(3 * Len(docs)) |->
                    LET doc == docs[((k - 1) \div 3) + 1]
                    IN  CASE (k - 1) % 3 = 0 -> [attr |-> "id", value |-> doc.id]
                          [] (k - 1) % 3 = 1 -> [attr |-> "text", value |-> doc.text]
                          [] OTHER -> [attr |-> "embedding", value |-> doc.embedding]]]

\* pickle.load: the list of documents built from the stream
pickle_load(data) ==
    [i \in 1..data.count |->
        [id |-> data.objects[3 * (i - 1) + 1].value,
         text |-> data.objects[3 * (i - 1) + 2].value,
         embedding |-> data.objects[3 * (i - 1) + 3].value]]

\* _save_index: the two files after the call
SaveIndex(idx, docs, outcome, files) ==
    IF idx = None \/ outcome = "index_failed" THEN files
    ELSE IF outcome = "saved"
    THEN << StoredFile(write_index(idx)), StoredFile(pickle_dump(docs)) >>
    ELSE IF outcome = "docs_open_failed"
    THEN << StoredFile(write_index(idx)), files[2] >>
    ELSE << StoredFile(write_index(idx)), CorruptFile >>

\* _load_index: what it returns and what it leaves in self.index and
\* self.documents
LoadIndex(docs, idx, files) ==
    IF files[1] = MissingFile \/ files[2] = MissingFile
    THEN [loaded |-> FALSE, documents |-> docs, index |-> idx]
    ELSE IF files[1] = CorruptFile
    THEN [loaded |-> FALSE, documents |-> docs, index |-> idx]
    ELSE IF files[2] = CorruptFile
    THEN [loaded |-> FALSE, documents |-> docs, index |-> read_index(files[1].data)]
    ELSE [loaded |-> TRUE, documents |-> pickle_load(files[2].data),
          index |-> read_index(files[1].data)]

(***************************************************************************)
(* Construction and the operations, one action per call.                   *)
(***************************************************************************)
\* BankingRAGService.__init__ in a fresh process without persisted files,
\* in any environment
Construct ==
    /\ credentials \in BOOLEAN
    /\ provider_up \in BOOLEAN
    /\ model_dim \in ModelDimensions
    /\ disk_ok \in BOOLEAN
    /\ provider_up => credentials
    /\ model_dim # embedding_dimension => provider_up
    /\ client = FALSE
    /\ documents = << >>
    /\ index = None
    /\ is_initialized = FALSE
    /\ index_file = MissingFile
    /\ docs_file = MissingFile
    /\ ret = [op |-> "__init__"]
    /\ threads = [t \in Threads |-> [pc |-> "idle"]]
    /\ removed = 0

\* a deployment whose data directory stays writable
Init == Construct /\ disk_ok

\* a deployment whose saves can fail, with a model of the configured width
InitFaulty == Construct /\ ~disk_ok /\ model_dim = embedding_dimension

\* initialize() on a service whose fields are docs and idx: what it leaves
\* in the fields and in the files, and whether it raises
InitializeResult(docs, idx, files, hasCredentials, dim, ok, outcome) ==
    LET load == LoadIndex(docs, idx, files)
        built == CreateVectorIndex(get_banking_knowledge_base, load.index,
                                   hasCredentials, dim, ok)
    IN  IF load.loaded
        THEN [raised |-> FALSE, loaded |-> TRUE, documents |-> load.documents,
              index |-> load.index, files |-> files]
        ELSE IF built.raised
        THEN [raised |-> TRUE, loaded |-> FALSE, documents |-> built.documents,
              index |-> built.index, files |-> files]
        ELSE [raised |-> FALSE, loaded |-> FALSE, documents |-> built.documents,
              index |-> built.index,
              files |-> SaveIndex(built.index, built.documents, outcome, files)]

\* initialize(), called by the callers that find the service not
\* initialized
Initialize ==
    /\ ~is_initialized
    /\ \E outcome \in SaveOutcomesOn(disk_ok) :
        LET r == InitializeResult(documents, index, << index_file, docs_file >>,
                                  credentials, model_dim, provider_up, outcome)
        IN  /\ client' = credentials
            /\ documents' = r.documents
            /\ index' = r.index
            /\ is_initialized' = ~r.raised
            /\ index_file' = r.files[1]
            /\ docs_file' = r.files[2]
            /\ ret' = [op |-> "initialize", raised |-> r.raised, loaded |-> r.loaded]
    /\ UNCHANGED << env, threads, removed >>

\* main(): the process starts again on the files the last one left: a new
\* BankingRAGService() and its initialize(), whose failure main() survives
Main ==
    /\ ret.op # "__init__"
    /\ \E outcome \in SaveOutcomesOn(disk_ok) :
        LET r == InitializeResult(<< >>, None, << index_file, docs_file >>,
                                  credentials, model_dim, provider_up, outcome)
        IN  /\ client' = credentials
            /\ documents' = r.documents
            /\ index' = r.index
            /\ is_initialized' = ~r.raised
            /\ index_file' = r.files[1]
            /\ docs_file' = r.files[2]
            /\ ret' = [op |-> "main", raised |-> r.raised, loaded |-> r.loaded]
    /\ removed' = 0
    /\ UNCHANGED << env, threads >>

\* the store and the index pair every document with its own vector
Paired(docs, idx) ==
    /\ idx # None
    /\ Len(docs) = IndexSize(idx)
    /\ \A i \in 1..Len(docs) : idx.vectors[i] = Normalize(docs[i].embedding)

\* _save_index raising to its caller what it catches in lines 180-181: the
\* call that saves fails with the save
ResultWithSave(result, outcome) == result /\ outcome = "saved"

\* the result of a call that has reached its _save_index with the result:
\* _save_index catches every exception (lines 180-181) and the call goes on
ResultAfterSave(result, outcome) == result

\* the position of the first document with the id, 0 when there is none
FindDocument(docs, id) ==
    IF id \in Ids(docs)
    THEN CHOOSE i \in 1..Len(docs) :
            /\ docs[i].id = id
            /\ \A j \in 1..(i - 1) : docs[j].id # id
    ELSE 0

\* add_document without the duplicate check of lines 468-471
AddDocumentUnchecked(docs, idx, document, hasClient, dim, ok) ==
    LET embedding ==
            generate_embeddings(hasClient, dim, << DocInput(document.text) >>, ok)[1]
        appended == Append(docs, [document EXCEPT !.embedding = embedding])
    IN  IF idx = None
        THEN [result |-> TRUE, why |-> "added", saves |-> TRUE,
              documents |-> appended, index |-> idx]
        ELSE IF CanAdd(idx, << Normalize(embedding) >>)
        THEN [result |-> TRUE, why |-> "added", saves |-> TRUE,
              documents |-> appended,
              index |-> IndexAdd(idx, << Normalize(embedding) >>)]
        ELSE [result |-> FALSE, why |-> "index_add_raised", saves |-> FALSE,
              documents |-> appended, index |-> idx]

\* add_document(document): what it returns and what it leaves behind
AddDocumentResult(docs, idx, document, hasClient, dim, ok) ==
    IF document.id \in Ids(docs)
    THEN [result |-> FALSE, why |-> "duplicate", saves |-> FALSE,
          documents |-> docs, index |-> idx]
    ELSE LET embedding ==
                 generate_embeddings(hasClient, dim, << DocInput(document.text) >>, ok)[1]
             appended == Append(docs, [document EXCEPT !.embedding = embedding])
         IN  IF idx = None
             THEN [result |-> TRUE, why |-> "added", saves |-> TRUE,
                   documents |-> appended, index |-> idx]
             ELSE IF CanAdd(idx, << Normalize(embedding) >>)
             THEN [result |-> TRUE, why |-> "added", saves |-> TRUE,
                   documents |-> appended,
                   index |-> IndexAdd(idx, << Normalize(embedding) >>)]
             ELSE [result |-> FALSE, why |-> "index_add_raised", saves |-> FALSE,
                   documents |-> appended, index |-> idx]

\* add_document(document)
AddDocument ==
    /\ Len(documents) < MaxDocs
    /\ IndexSize(index) < MaxDocs
    /\ \E id \in DocIds, outcome \in SaveOutcomesOn(disk_ok) :
        LET document == [id |-> id, text |-> AddText(id), embedding |-> None]
            r == AddDocumentResult(documents, index, document, client, model_dim, provider_up)
            saved == IF r.saves
                     THEN SaveIndex(r.index, r.documents, outcome, << index_file, docs_file >>)
                     ELSE << index_file, docs_file >>
        IN  /\ documents' = r.documents
            /\ index' = r.index
            /\ index_file' = saved[1]
            /\ docs_file' = saved[2]
            /\ ret' = [op |-> "add_document", document |-> document,
                       result |-> IF r.saves THEN ResultAfterSave(r.result, outcome)
                                  ELSE r.result,
                       why |-> r.why,
                       save |-> IF r.saves /\ r.index # None THEN outcome ELSE "none"]
            /\ removed' = IF r.result /\ removed = id THEN 0 ELSE removed
    /\ UNCHANGED << env, threads, client, is_initialized >>

\* remove_document without the not-found return of lines 508-510: the last
\* document goes when no document has the id
RemoveDocumentUnchecked(docs, idx, document_id, hasClient, dim, ok) ==
    LET found == FindDocument(docs, document_id)
        doc_index == IF found = 0 THEN Len(docs) ELSE found
        built == CreateVectorIndex(RemoveAt(docs, doc_index), idx, hasClient, dim, ok)
    IN  IF built.raised
        THEN [result |-> FALSE, why |-> "rebuild_raised", saves |-> FALSE,
              documents |-> built.documents, index |-> built.index]
        ELSE [result |-> TRUE, why |-> "removed", saves |-> TRUE,
              documents |-> built.documents, index |-> built.index]

\* remove_document(document_id): what it returns and what it leaves behind
RemoveDocumentResult(docs, idx, document_id, hasClient, dim, ok) ==
    LET doc_index == FindDocument(docs, document_id)
        built == CreateVectorIndex(RemoveAt(docs, doc_index), idx, hasClient, dim, ok)
    IN  IF doc_index = 0
        THEN [result |-> FALSE, why |-> "not_found", saves |-> FALSE,
              documents |-> docs, index |-> idx]
        ELSE IF built.raised
        THEN [result |-> FALSE, why |-> "rebuild_raised", saves |-> FALSE,
              documents |-> built.documents, index |-> built.index]
        ELSE [result |-> TRUE, why |-> "removed", saves |-> TRUE,
              documents |-> built.documents, index |-> built.index]

\* remove_document(document_id)
RemoveDocument ==
    /\ \E id \in DocIds, outcome \in SaveOutcomesOn(disk_ok) :
        LET r == RemoveDocumentResult(documents, index, id, client, model_dim, provider_up)
            saved == IF r.saves
                     THEN SaveIndex(r.index, r.documents, outcome, << index_file, docs_file >>)
                     ELSE << index_file, docs_file >>
        IN  /\ documents' = r.documents
            /\ index' = r.index
            /\ index_file' = saved[1]
            /\ docs_file' = saved[2]
            /\ ret' = [op |-> "remove_document", document_id |-> id,
                       result |-> IF r.saves THEN ResultAfterSave(r.result, outcome)
                                  ELSE r.result,
                       why |-> r.why,
                       save |-> IF r.saves THEN outcome ELSE "none"]
            /\ removed' = IF r.result THEN id ELSE removed
    /\ UNCHANGED << env, threads, client, is_initialized >>

\* rebuild_index keeping every document it finds after the knowledge base
RebuildDocumentsKeeping(docs) == get_banking_knowledge_base \o docs

\* rebuild_index lines 531-539: the documents it goes on with
RebuildDocuments(docs) ==
    LET reloaded == get_banking_knowledge_base
        existing_docs == SelectSeq(reloaded,
                            LAMBDA doc : doc.id \notin Ids(get_banking_knowledge_base))
    IN  get_banking_knowledge_base \o existing_docs

\* rebuild_index lines 541-549: embed the documents that have no embedding
EmbedMissing(docs, hasClient, dim, ok) ==
    LET missing == SelectSeq([i \in 1..Len(docs) |-> i],
                             LAMBDA i : docs[i].embedding = None)
        texts == [j \in 1..Len(missing) |-> DocInput(docs[missing[j]].text)]
        new_embeddings == generate_embeddings(hasClient, dim, texts, ok)
        slot(i) == CHOOSE j \in 1..Len(missing) : missing[j] = i
    IN  IF missing = << >> THEN docs
        ELSE [i \in 1..Len(docs) |->
                IF docs[i].embedding = None
                THEN [docs[i] EXCEPT !.embedding = new_embeddings[slot(i)]]
                ELSE docs[i]]

\* rebuild_index without the index.add of line 572: the new index stays
\* empty
RebuildIndexWithoutAdd(docs, hasClient, dim, ok) ==
    [raised |-> FALSE,
     documents |-> EmbedMissing(RebuildDocuments(docs), hasClient, dim, ok),
     index |-> NewIndex]

\* rebuild_index(): whether it raises and what it leaves behind
RebuildIndexResult(docs, hasClient, dim, ok) ==
    LET all_docs == EmbedMissing(RebuildDocuments(docs), hasClient, dim, ok)
        embedding_matrix == [i \in 1..Len(all_docs) |-> Normalize(all_docs[i].embedding)]
    IN  IF CanAdd(NewIndex, embedding_matrix)
        THEN [raised |-> FALSE, documents |-> all_docs,
              index |-> IndexAdd(NewIndex, embedding_matrix)]
        ELSE [raised |-> TRUE, documents |-> all_docs, index |-> NewIndex]

\* rebuild_index()
RebuildIndex ==
    /\ \E outcome \in SaveOutcomesOn(disk_ok) :
        LET r == RebuildIndexResult(documents, client, model_dim, provider_up)
            saved == IF r.raised THEN << index_file, docs_file >>
                     ELSE SaveIndex(r.index, r.documents, outcome, << index_file, docs_file >>)
        IN  /\ documents' = r.documents
            /\ index' = r.index
            /\ index_file' = saved[1]
            /\ docs_file' = saved[2]
            /\ ret' = [op |-> "rebuild_index",
                       raised |-> IF r.raised THEN TRUE
                                  ELSE ~ResultAfterSave(TRUE, outcome),
                       provider_ok |-> client /\ provider_up,
                       repeated |-> ret.op = "rebuild_index",
                       was_paired |-> Paired(documents, index),
                       save |-> IF r.raised THEN "none" ELSE outcome]
    /\ UNCHANGED << env, threads, client, is_initialized, removed >>

\* retrieve_documents(query, top_k): whether it raises, the path taken and
\* the list returned
RetrieveDocumentsResult(docs, idx, initialized, hasClient, dim, q, top_k, ok) ==
    IF ~initialized \/ idx = None
    THEN [raised |-> TRUE, path |-> "none", results |-> << >>]
    ELSE IF ~hasClient
    THEN [raised |-> FALSE, path |-> "lexical",
          results |-> MockRetrieval(docs, q, top_k)]
    ELSE LET r == EmbeddingRetrieval(docs, idx, dim, q, top_k, ok)
         IN  [raised |-> FALSE, path |-> r.path, results |-> r.results]

\* retrieve_documents(query, top_k) assigning the documents it found to
\* self.documents
RetrieveDocumentsKeepingFound ==
    /\ \E q \in QueryIds, top_k \in TopKs :
        LET r == RetrieveDocumentsResult(documents, index, is_initialized, client,
                                         model_dim, q, top_k, provider_up)
        IN  /\ ret' = [op |-> "retrieve_documents", query |-> q, top_k |-> top_k,
                       provider_ok |-> client /\ provider_up,
                       raised |-> r.raised, path |-> r.path, results |-> r.results]
            /\ documents' = [i \in 1..Len(r.results) |-> r.results[i].document]
    /\ UNCHANGED << env, threads, client, index, is_initialized, disk, removed >>

\* retrieve_documents(query, top_k)
RetrieveDocuments ==
    /\ \E q \in QueryIds, top_k \in TopKs :
        LET r == RetrieveDocumentsResult(documents, index, is_initialized, client,
                                         model_dim, q, top_k, provider_up)
        IN  ret' = [op |-> "retrieve_documents", query |-> q, top_k |-> top_k,
                    provider_ok |-> client /\ provider_up,
                    raised |-> r.raised, path |-> r.path, results |-> r.results]
    /\ UNCHANGED << env, threads, client, documents, index, is_initialized, disk, removed >>

Next ==
    \/ Initialize
    \/ Main
    \/ AddDocument
    \/ RemoveDocument
    \/ RebuildIndex
    \/ RetrieveDocuments

Spec == Init /\ [][Next]_vars

\* the calls that write the persisted files, and the restarts that read them
FaultyNext ==
    \/ Initialize
    \/ Main
    \/ AddDocument
    \/ RemoveDocument
    \/ RebuildIndex

FaultySpec == InitFaulty /\ [][FaultyNext]_vars

(***************************************************************************)
(* Properties of the calls made one at a time.                             *)
(***************************************************************************)
IdsOf(docs) == [i \in 1..Len(docs) |-> docs[i].id]

\* what a caller sees of a result list
Seen(results) ==
    [i \in 1..Len(results) |->
        [id |-> results[i].document.id,
         relevance_score |-> results[i].relevance_score,
         rank |-> results[i].rank]]

\* C1: after every add_document, remove_document and rebuild_index call,
\* whatever it returned, len(documents) equals the number of vectors in the
\* index.
C1_CountEqualsIndexSize ==
    ret.op \in {"add_document", "remove_document", "rebuild_index"}
        => Len(documents) = IndexSize(index)

\* C2: whenever add_document(doc) returns success, the document count and
\* the index size have each grown by exactly 1, doc is the last document and
\* its vector is the last vector of the index, in every state in which the
\* call can be made, the states without an index included.
C2_AddGrowsStoreAndIndex ==
    [][(ret'.op = "add_document" /\ ret'.result)
        => /\ Len(documents') = Len(documents) + 1
           /\ IndexSize(index') = IndexSize(index) + 1
           /\ documents'[Len(documents')].id = ret'.document.id
           /\ index'.vectors[IndexSize(index')]
                = Normalize(documents'[Len(documents')].embedding)]_vars

\* C3: add_document(doc) with the id of a document already in the store
\* returns False and leaves the store and the index as they were.
C3_DuplicateAddRejected ==
    [][(ret'.op = "add_document" /\ ret'.document.id \in Ids(documents))
        => /\ ret'.result = FALSE
           /\ documents' = documents
           /\ index' = index]_vars

\* a duplicate add has been made on a store that an index covers
C3_Witness ==
    /\ ret.op = "add_document"
    /\ ret.why = "duplicate"
    /\ index # None
    /\ Len(documents) = IndexSize(index)

\* C4: remove_document(id) with an id that no document of the store has
\* returns False and leaves the store and the index as they were: nothing is
\* rebuilt.
C4_MissingRemoveRejected ==
    [][(ret'.op = "remove_document" /\ ret'.document_id \notin Ids(documents))
        => /\ ret'.result = FALSE
           /\ documents' = documents
           /\ index' = index
           /\ disk' = disk]_vars

\* a remove of an absent id has been made on a store that holds documents
C4_Witness ==
    /\ ret.op = "remove_document"
    /\ ret.why = "not_found"
    /\ documents # << >>
    /\ index # None

\* C5: a remove_document(id) that returns success leaves one document less,
\* and no retrieve_documents made afterwards returns a document with that
\* id until an add_document with that id succeeds, whatever adds, removes
\* and rebuilds run in between.
C5_RemovedStaysAway ==
    [][/\ (ret'.op = "remove_document" /\ ret'.result)
            => Len(documents') = Len(documents) - 1
       /\ (ret'.op = "retrieve_documents" /\ removed' # 0)
            => \A i \in 1..Len(ret'.results) :
                    ret'.results[i].document.id # removed']_vars

C9_SortedAndRanked ==
    (ret.op = "retrieve_documents" /\ ~ret.raised)
        => \A p \in 1..Len(ret.results) :
            /\ ret.results[p].rank = p
            /\ p > 1 => ~ScoreGt(ret.results[p].relevance_score,
                                 ret.results[p - 1].relevance_score)

\* C10: with a provider configured and its embedding call for the query
\* failing, retrieve_documents on an initialized service does not raise and
\* returns what the lexical ranker returns for the query and top_k.
C10_FailureFallsBackToLexical ==
    (ret.op = "retrieve_documents" /\ client /\ ~provider_up
            /\ is_initialized /\ index # None)
        => /\ ~ret.raised
           /\ Seen(ret.results) = Seen(MockRetrieval(documents, ret.query, ret.top_k))

(***************************************************************************)
(* The calls made by request threads.  main() serves with threaded=True    *)
(* and the service holds no lock: a thread runs a call statement by        *)
(* statement, and the statements of the threads interleave.                *)
(***************************************************************************)
\* what stays as it is while the request threads run
fixed == << env, client, is_initialized, ret, removed >>

Idle == [pc |-> "idle"]

\* the service main() leaves for the request threads: constructed and
\* initialized on an empty data directory, with a model of the configured
\* width
ConcInit ==
    /\ credentials \in BOOLEAN
    /\ provider_up \in BOOLEAN
    /\ provider_up => credentials
    /\ model_dim = embedding_dimension
    /\ disk_ok = TRUE
    /\ LET r == InitializeResult(<< >>, None, << MissingFile, MissingFile >>,
                                 credentials, model_dim, provider_up, "saved")
       IN  /\ client = credentials
           /\ documents = r.documents
           /\ index = r.index
           /\ is_initialized = ~r.raised
           /\ index_file = r.files[1]
           /\ docs_file = r.files[2]
           /\ ret = [op |-> "main", raised |-> r.raised, loaded |-> r.loaded]
    /\ removed = 0
    /\ threads = [t \in Threads |-> Idle]

\* the thread is between two calls
Free(t) == threads[t].pc \in {"idle", "returned"}

\* the thread has entered a call with the name and has not returned
Inside(t, op) == ~Free(t) /\ threads[t].op = op

Returned(op, arg, result) ==
    [pc |-> "returned", op |-> op, arg |-> arg, result |-> result]

\* add_document lines 467-475: the duplicate check and the embedding
AddCheck(t) ==
    /\ Free(t)
    /\ Len(documents) < MaxDocs
    /\ IndexSize(index) < MaxDocs
    /\ \E id \in DocIds :
        LET document == [id |-> id, text |-> AddText(id), embedding |-> None]
            embedding == generate_embeddings(client, model_dim,
                                             << DocInput(document.text) >>, provider_up)[1]
            overlap == \E u \in Threads \ {t} :
                            Inside(u, "add_document") /\ threads[u].arg = id
        IN  threads' =
                IF id \in Ids(documents)
                THEN [threads EXCEPT ![t] = Returned("add_document", id, FALSE)]
                ELSE [u \in Threads |->
                        IF u = t
                        THEN [pc |-> "add_append", op |-> "add_document", arg |-> id,
                              document |-> [document EXCEPT !.embedding = embedding],
                              overlapped |-> overlap]
                        ELSE IF Inside(u, "add_document") /\ threads[u].arg = id
                        THEN [threads[u] EXCEPT !.overlapped = TRUE]
                        ELSE threads[u]]
    /\ UNCHANGED << fixed, documents, index, disk >>

\* add_document line 478
AddAppend(t) ==
    /\ threads[t].pc = "add_append"
    /\ documents' = Append(documents, threads[t].document)
    /\ threads' = [threads EXCEPT ![t].pc = "add_index"]
    /\ UNCHANGED << fixed, index, disk >>

\* add_document lines 480-496
AddIndex(t) ==
    /\ threads[t].pc = "add_index"
    /\ LET vector == << Normalize(threads[t].document.embedding) >>
           raises == index # None /\ ~CanAdd(index, vector)
           added == IF index = None THEN index ELSE IndexAdd(index, vector)
           saved == SaveIndex(added, documents, "saved", << index_file, docs_file >>)
           result == [pc |-> "returned", op |-> "add_document",
                      arg |-> threads[t].arg, result |-> ~raises,
                      overlapped |-> threads[t].overlapped]
       IN  /\ index' = IF raises THEN index ELSE added
           /\ index_file' = IF raises THEN index_file ELSE saved[1]
           /\ docs_file' = IF raises THEN docs_file ELSE saved[2]
           /\ threads' = [threads EXCEPT ![t] = result]
    /\ UNCHANGED << fixed, documents >>

\* remove_document lines 501-510
RemoveFind(t) ==
    /\ Free(t)
    /\ \E id \in DocIds :
        LET doc_index == FindDocument(documents, id)
        IN  threads' =
                [threads EXCEPT ![t] =
                    IF doc_index = 0
                    THEN Returned("remove_document", id, FALSE)
                    ELSE [pc |-> "remove_pop", op |-> "remove_document", arg |-> id,
                          doc_index |-> doc_index]]
    /\ UNCHANGED << fixed, documents, index, disk >>

\* remove_document line 513, and lines 138-145 of the _create_vector_index
\* it calls next: an IndexError, or no document left, ends the call
RemovePop(t) ==
    /\ threads[t].pc = "remove_pop"
    /\ LET raises == threads[t].doc_index > Len(documents)
           popped == IF raises THEN documents
                     ELSE RemoveAt(documents, threads[t].doc_index)
           texts == [i \in 1..Len(popped) |-> DocInput(popped[i].text)]
       IN  /\ documents' = popped
           /\ threads' =
                [threads EXCEPT ![t] =
                    IF raises \/ popped = << >>
                    THEN Returned("remove_document", threads[t].arg, FALSE)
                    ELSE [pc |-> "remove_assign", op |-> "remove_document",
                          arg |-> threads[t].arg,
                          embeddings |-> generate_embeddings(client, model_dim,
                                                             texts, provider_up)]]
    /\ UNCHANGED << fixed, index, disk >>

\* _create_vector_index lines 148-152, called by remove_document
RemoveAssign(t) ==
    /\ threads[t].pc = "remove_assign"
    /\ documents' = [i \in 1..Len(documents) |->
                        IF i <= Len(threads[t].embeddings)
                        THEN [documents[i] EXCEPT !.embedding = threads[t].embeddings[i]]
                        ELSE documents[i]]
    /\ index' = NewIndex
    /\ threads' = [threads EXCEPT ![t].pc = "remove_fill"]
    /\ UNCHANGED << fixed, disk >>

\* _create_vector_index lines 154-164 and remove_document lines 517-524
RemoveFill(t) ==
    /\ threads[t].pc = "remove_fill"
    /\ LET embedding_matrix == [i \in 1..Len(threads[t].embeddings) |->
                                    Normalize(threads[t].embeddings[i])]
           raises == ~CanAdd(index, embedding_matrix)
           added == IndexAdd(index, embedding_matrix)
           saved == SaveIndex(added, documents, "saved", << index_file, docs_file >>)
       IN  /\ index' = IF raises THEN index ELSE added
           /\ index_file' = IF raises THEN index_file ELSE saved[1]
           /\ docs_file' = IF raises THEN docs_file ELSE saved[2]
           /\ threads' = [threads EXCEPT ![t] =
                            Returned("remove_document", threads[t].arg, ~raises)]
    /\ UNCHANGED << fixed, documents >>

\* rebuild_index lines 531-539
RebuildReload(t) ==
    /\ Free(t)
    /\ documents' = RebuildDocuments(documents)
    /\ threads' = [threads EXCEPT ![t] =
                    [pc |-> "rebuild_embed", op |-> "rebuild_index", arg |-> None]]
    /\ UNCHANGED << fixed, index, disk >>

\* rebuild_index lines 541-552
RebuildEmbed(t) ==
    /\ threads[t].pc = "rebuild_embed"
    /\ documents' = EmbedMissing(documents, client, model_dim, provider_up)
    /\ index' = NewIndex
    /\ threads' = [threads EXCEPT ![t].pc = "rebuild_fill"]
    /\ UNCHANGED << fixed, disk >>

\* rebuild_index lines 554-581
RebuildFill(t) ==
    /\ threads[t].pc = "rebuild_fill"
    /\ LET all_docs == EmbedMissing(documents, client, model_dim, provider_up)
           embedding_matrix == [i \in 1..Len(all_docs) |->
                                    Normalize(all_docs[i].embedding)]
           raises == ~CanAdd(index, embedding_matrix)
           added == IndexAdd(index, embedding_matrix)
           saved == SaveIndex(added, all_docs, "saved", << index_file, docs_file >>)
       IN  /\ documents' = all_docs
           /\ index' = IF raises THEN index ELSE added
           /\ index_file' = IF raises THEN index_file ELSE saved[1]
           /\ docs_file' = IF raises THEN docs_file ELSE saved[2]
           /\ threads' = [threads EXCEPT ![t] =
                            Returned("rebuild_index", None, ~raises)]
    /\ UNCHANGED fixed

\* a retrieve_documents call that has returned or raised
RetrieveReturned(arg, raised, results, paired) ==
    [pc |-> "returned", op |-> "retrieve_documents", arg |-> arg,
     raised |-> raised, result |-> results, paired_at_entry |-> paired]

\* retrieve_documents lines 213-224: the guards, the lexical path without a
\* client, and the query embedding with one; the request threads ask for
\* MaxTopK documents
RetrieveCheck(t) ==
    /\ Free(t)
    /\ \E q \in QueryIds, top_k \in {MaxTopK} :
        threads' =
            [threads EXCEPT ![t] =
                IF ~is_initialized \/ index = None
                THEN RetrieveReturned(<< q, top_k >>, TRUE, << >>,
                                      Paired(documents, index))
                ELSE IF ~client
                THEN RetrieveReturned(<< q, top_k >>, FALSE,
                                      MockRetrieval(documents, q, top_k),
                                      Paired(documents, index))
                ELSE [pc |-> "retrieve_search", op |-> "retrieve_documents",
                      arg |-> << q, top_k >>,
                      query_embedding |->
                          Normalize(generate_embeddings(TRUE, model_dim,
                                        << QueryInput(q) >>, provider_up)[1]),
                      paired_at_entry |-> Paired(documents, index)]]
    /\ UNCHANGED << fixed, documents, index, disk >>

\* retrieve_documents lines 227-231, and line 249 when the search raises
RetrieveSearch(t) ==
    /\ threads[t].pc = "retrieve_search"
    /\ LET q == threads[t].arg[1]
           top_k == threads[t].arg[2]
       IN  threads' =
            [threads EXCEPT ![t] =
                IF CanSearch(index, threads[t].query_embedding, top_k)
                THEN [pc |-> "retrieve_loop", op |-> "retrieve_documents",
                      arg |-> threads[t].arg,
                      searched |-> index,
                      found |-> IndexSearch(index, threads[t].query_embedding, top_k),
                      paired_at_entry |-> threads[t].paired_at_entry]
                ELSE RetrieveReturned(threads[t].arg, FALSE,
                                      MockRetrieval(documents, q, top_k),
                                      threads[t].paired_at_entry)]
    /\ UNCHANGED << fixed, documents, index, disk >>

\* retrieve_documents lines 233-245, and line 249 when the loop raises
RetrieveLoop(t) ==
    /\ threads[t].pc = "retrieve_loop"
    /\ LET q == threads[t].arg[1]
           top_k == threads[t].arg[2]
           found == threads[t].found
           results == SearchResults(documents, threads[t].searched, found)
           completes ==
               /\ \A i \in 1..Len(found) : InRange(documents, found[i].idx)
               /\ \A i \in 1..Len(results) : ValidScore(results[i].relevance_score)
       IN  threads' =
            [threads EXCEPT ![t] =
                RetrieveReturned(threads[t].arg, FALSE,
                                 IF completes THEN results
                                 ELSE MockRetrieval(documents, q, top_k),
                                 threads[t].paired_at_entry)]
    /\ UNCHANGED << fixed, documents, index, disk >>

ConcNext ==
    \E t \in Threads :
        \/ AddCheck(t)
        \/ AddAppend(t)
        \/ AddIndex(t)
        \/ RemoveFind(t)
        \/ RemovePop(t)
        \/ RemoveAssign(t)
        \/ RemoveFill(t)
        \/ RebuildReload(t)
        \/ RebuildEmbed(t)
        \/ RebuildFill(t)
        \/ RetrieveCheck(t)
        \/ RetrieveSearch(t)
        \/ RetrieveLoop(t)

ConcSpec == ConcInit /\ [][ConcNext]_vars

(***************************************************************************)
(* Properties of the calls made by request threads.                        *)
(***************************************************************************)
\* the result list of a retrieve_documents call the thread has returned
\* from, empty for any other thread
ResultsOf(t) ==
    IF /\ threads[t].pc = "returned"
       /\ threads[t].op = "retrieve_documents"
       /\ ~threads[t].raised
    THEN threads[t].result
    ELSE << >>

\* every result built from the index carries the score of the vector of
\* its own document
OwnScores(results) ==
    \A i \in 1..Len(results) :
        results[i].from_vector # None
            => results[i].from_vector = Normalize(results[i].document.embedding)

\* C7: in every interleaving of the request threads, no retrieve_documents
\* call is at work on a store whose length differs from the index size, and
\* no result it returns pairs the score of one document's vector with
\* another document.
C7_RetrieveSeesPairedState ==
    \A t \in Threads :
        /\ threads[t].pc \in {"retrieve_search", "retrieve_loop"}
                => Len(documents) = IndexSize(index)
        /\ OwnScores(ResultsOf(t))

\* a retrieve_documents call that found every document paired with its own
\* vector when it entered has returned the score of one document's vector
\* with another document: another thread's call moved the store under it
C7_TornRead ==
    \E t \in Threads :
        /\ ResultsOf(t) # << >>
        /\ threads[t].paired_at_entry
        /\ ~OwnScores(ResultsOf(t))

\* C8: no two documents of the store share an id in any reachable state,
\* and of two add_document calls with the same new id running at the same
\* time in two request threads at most one returns success.
C8_UniqueIds ==
    /\ \A i, j \in 1..Len(documents) :
            i # j => documents[i].id # documents[j].id
    /\ \A t, u \in Threads :
            (/\ t # u
             /\ threads[t].pc = "returned" /\ threads[t].op = "add_document"
             /\ threads[u].pc = "returned" /\ threads[u].op = "add_document"
             /\ threads[t].arg = threads[u].arg
             /\ threads[t].result /\ threads[u].result)
                => ~(threads[t].overlapped /\ threads[u].overlapped)

\* two add_document calls with the same id that ran at the same time have
\* both returned success and the store holds the id twice
C8_BothAdded ==
    \E t, u \in Threads :
        /\ t # u
        /\ threads[t].pc = "returned" /\ threads[t].op = "add_document"
        /\ threads[u].pc = "returned" /\ threads[u].op = "add_document"
        /\ threads[t].arg = threads[u].arg
        /\ threads[t].result /\ threads[u].result
        /\ threads[t].overlapped /\ threads[u].overlapped
        /\ \E i, j \in 1..Len(documents) :
                i # j /\ documents[i].id = threads[t].arg
                      /\ documents[j].id = threads[t].arg

(***************************************************************************)
(* Further properties of the calls made one at a time.                     *)
(***************************************************************************)
\* C11: an add_document whose embedding request fails reports the failure
\* and adds the document neither to the store nor to the index, and the
\* vector an add_document puts in the index is the provider's vector of the
\* document.
C11_AddFailsWithoutEmbedding ==
    [][(ret'.op = "add_document" /\ client
            /\ ret'.document.id \notin Ids(documents))
        => /\ ~provider_up
                => /\ ret'.result = FALSE
                   /\ documents' = documents
                   /\ index' = index
           /\ IndexSize(index') > IndexSize(index)
                => index'.vectors[IndexSize(index')].c
                        = ProviderVector(DocInput(ret'.document.text), model_dim)]_vars

\* no document of the store matches the query on the lexical path
NoLexicalMatch(docs, q) ==
    \A i \in 1..Len(docs) : ScoreTable[q][docs[i].text].raw = 0

\* C12: in every state reachable after initialization retrieve_documents
\* returns a list and raises nothing, and the list is empty when no
\* document matches: the store is empty, or the lexical path finds no
\* document with a positive score.
C12_NoResultsIsEmptyList ==
    (ret.op = "retrieve_documents" /\ is_initialized)
        => /\ ~ret.raised
           /\ documents = << >> => ret.results = << >>
           /\ (ret.path \in {"lexical", "fallback"}
                    /\ NoLexicalMatch(documents, ret.query))
                => ret.results = << >>

\* a retrieve_documents on an initialized service that holds documents has
\* returned the empty list, no document matching the query
C12_Witness ==
    /\ ret.op = "retrieve_documents"
    /\ is_initialized
    /\ ~ret.raised
    /\ documents # << >>
    /\ ret.path \in {"lexical", "fallback"}
    /\ ret.results = << >>

\* C13: whenever initialize() completes and sets is_initialized, the index
\* exists and len(documents) equals the index size, whatever the two
\* persisted files held; and the load succeeds only on two files that agree
\* on the number of documents.
C13_StartupLeavesPairedIndex ==
    (ret.op \in {"initialize", "main"} /\ is_initialized)
        => /\ index # None
           /\ Len(documents) = IndexSize(index)
           /\ ret.loaded => Len(pickle_load(docs_file.data))
                            = IndexSize(read_index(index_file.data))

\* the save of the call failed: a part of the two files was not written
SaveFailed(call) == call.save \notin {"saved", "none"}

\* C14: a save that fails during add_document, remove_document or
\* rebuild_index changes nothing of what the call returns and raises
\* nothing, and the store and the index hold what the call made of them.
C14_SaveFailureKeepsOutcome ==
    [][/\ (ret'.op = "add_document" /\ SaveFailed(ret'))
            => LET r == AddDocumentResult(documents, index, ret'.document,
                                          client, model_dim, provider_up)
               IN  /\ ret'.result = r.result
                   /\ ret'.result = TRUE
                   /\ documents' = r.documents
                   /\ index' = r.index
       /\ (ret'.op = "remove_document" /\ SaveFailed(ret'))
            => LET r == RemoveDocumentResult(documents, index, ret'.document_id,
                                             client, model_dim, provider_up)
               IN  /\ ret'.result = r.result
                   /\ ret'.result = TRUE
                   /\ documents' = r.documents
                   /\ index' = r.index
       /\ (ret'.op = "rebuild_index" /\ SaveFailed(ret'))
            => LET r == RebuildIndexResult(documents, client, model_dim, provider_up)
               IN  /\ ~ret'.raised
                   /\ documents' = r.documents
                   /\ index' = r.index]_vars

\* an add_document has returned success with its document in the store and
\* its vector in the index while the write of the documents file failed
C14_Witness ==
    /\ ret.op = "add_document"
    /\ ret.save = "docs_dump_failed"
    /\ ret.result
    /\ docs_file = CorruptFile
    /\ documents[Len(documents)].id = ret.document.id
    /\ IndexSize(index) = Len(documents)

C16_PaddingDiscarded ==
    (/\ ret.op = "retrieve_documents"
     /\ client
     /\ is_initialized
     /\ Paired(documents, index)
     /\ 1 <= IndexSize(index)
     /\ IndexSize(index) < ret.top_k)
        => /\ ~ret.raised
           /\ Len(ret.results) = IndexSize(index)
           /\ \A i \in 1..Len(ret.results) : ret.results[i].from_vector # None
           /\ \A i \in 1..Len(documents) :
                Cardinality({ p \in 1..Len(ret.results) :
                                ret.results[p].document.id = documents[i].id }) = 1

\* C17: every result retrieve_documents returns, on the embedding path and
\* on the lexical path, has a relevance_score within [0, 1] and a rank of
\* at least 1.
C17_ScoreAndRankInRange ==
    (ret.op = "retrieve_documents" /\ ~ret.raised)
        => \A i \in 1..Len(ret.results) :
            /\ ret.results[i].relevance_score.d > 0
            /\ 0 <= ret.results[i].relevance_score.n
            /\ ret.results[i].relevance_score.n <= ret.results[i].relevance_score.d
            /\ ret.results[i].rank >= 1

\* retrieve_documents has returned the results of the lexical ranker after
\* its embedding path built a result with a score outside [0, 1]
C17_Witness ==
    /\ ret.op = "retrieve_documents"
    /\ ret.path = "fallback"
    /\ ret.top_k > 0
    /\ documents # << >>
    /\ ret.results # << >>

(***************************************************************************)
(* The lexical ranker on its own: a service without credentials,           *)
(* initialized on a knowledge base of any of the texts in any order, and   *)
(* the retrieve_documents calls made on it.                                *)
(***************************************************************************)
\* a knowledge base holds 1..MaxLexDocs documents
MaxLexDocs == 3

LexTopKs == (0 - 1)..MaxLexDocs

\* the texts of a knowledge base, document by document
KnowledgeTexts == UNION { [1..n -> TextIds] : n \in 1..MaxLexDocs }

\* a knowledge base with the texts: fresh documents without embeddings,
\* the id of a document being its position
KnowledgeBase(texts) ==
    [i \in 1..Len(texts) |-> [id |-> i, text |-> texts[i], embedding |-> None]]

\* BankingRAGService() without credentials and its initialize() on a
\* knowledge base, the data directory being empty before
LexInit ==
    /\ credentials = FALSE
    /\ provider_up = FALSE
    /\ model_dim = embedding_dimension
    /\ disk_ok = TRUE
    /\ client = FALSE
    /\ \E texts \in KnowledgeTexts :
        LET built == CreateVectorIndex(KnowledgeBase(texts), None, credentials,
                                       model_dim, provider_up)
            saved == SaveIndex(built.index, built.documents, "saved",
                               << MissingFile, MissingFile >>)
        IN  /\ documents = built.documents
            /\ index = built.index
            /\ is_initialized = ~built.raised
            /\ index_file = saved[1]
            /\ docs_file = saved[2]
            /\ ret = [op |-> "initialize", raised |-> built.raised, loaded |-> FALSE]
    /\ threads = [t \in Threads |-> Idle]
    /\ removed = 0

\* retrieve_documents(query, top_k) with any of the queries
LexRetrieveDocuments ==
    /\ \E q \in AllQueryIds, top_k \in LexTopKs :
        LET r == RetrieveDocumentsResult(documents, index, is_initialized, client,
                                         model_dim, q, top_k, provider_up)
        IN  ret' = [op |-> "retrieve_documents", query |-> q, top_k |-> top_k,
                    provider_ok |-> client /\ provider_up,
                    raised |-> r.raised, path |-> r.path, results |-> r.results]
    /\ UNCHANGED << env, threads, client, documents, index, is_initialized, disk, removed >>

LexSpec == LexInit /\ [][LexRetrieveDocuments]_vars

\* the positions of the documents of the store that score above 0
PositiveDocs(docs, q) ==
    { i \in 1..Len(docs) : ScoreTable[q][docs[i].text].raw > 0 }

\* the position in the store of the document of a result
StorePosition(docs, result) == FindDocument(docs, result.document.id)

\* C18: the lexical fallback returns exactly the documents with the highest
\* normalized scores: no document with raw score 0 is returned, each score
\* is min(raw / (3 * number of query words), 1), the list has
\* min(top_k, number of documents with positive score) elements for
\* top_k >= 0, no left-out document with a positive score has a higher
\* score than a returned one, and documents with equal scores come in the
\* order of the store.
C18_LexicalTopK ==
    (ret.op = "retrieve_documents" /\ ~ret.raised /\ ret.path = "lexical")
        => LET q == ret.query
               res == ret.results
               pos(p) == StorePosition(documents, res[p])
               raw(i) == ScoreTable[q][documents[i].text].raw
               full == 30 * Len(query_words(QueryText(q)))
               returned == { pos(p) : p \in 1..Len(res) }
           IN  /\ \A p \in 1..Len(res) :
                    /\ pos(p) \in 1..Len(documents)
                    /\ raw(pos(p)) > 0
                    /\ res[p].relevance_score.d > 0
                    /\ IF raw(pos(p)) >= full
                       THEN res[p].relevance_score.n = res[p].relevance_score.d
                       ELSE res[p].relevance_score.n * full
                                = raw(pos(p)) * res[p].relevance_score.d
               /\ Cardinality(returned) = Len(res)
               /\ ret.top_k >= 0
                    => Len(res) = Min(ret.top_k,
                                      Cardinality(PositiveDocs(documents, q)))
               /\ \A i \in PositiveDocs(documents, q) \ returned :
                    \A p \in 1..Len(res) :
                        Min(raw(i), full) * res[p].relevance_score.d
                            <= res[p].relevance_score.n * full
               /\ \A p, r \in 1..Len(res) :
                    (/\ p < r
                     /\ res[p].relevance_score.n * res[r].relevance_score.d
                            = res[r].relevance_score.n * res[p].relevance_score.d)
                        => pos(p) < pos(r)

\* a lexical retrieve has returned some of the documents that score above 0
\* and left one out that stands in the store before a returned one, and two
\* of the returned documents stand in the list against their store order
C18_Witness ==
    /\ ret.op = "retrieve_documents"
    /\ ret.path = "lexical"
    /\ ret.top_k > 0
    /\ \E i \in PositiveDocs(documents, ret.query) :
        /\ \A p \in 1..Len(ret.results) : StorePosition(documents, ret.results[p]) # i
        /\ \E p \in 1..Len(ret.results) : i < StorePosition(documents, ret.results[p])
    /\ \E p, r \in 1..Len(ret.results) :
        /\ p < r
        /\ StorePosition(documents, ret.results[p])
                > StorePosition(documents, ret.results[r])

\* the store holds a document with the title and the category
HasDocument(docs, title, category) ==
    \E i \in 1..Len(docs) :
        /\ TextOf(docs[i].text).title = title
        /\ TextOf(docs[i].text).category = category

HasCategory(docs, category) ==
    \E i \in 1..Len(docs) : TextOf(docs[i].text).category = category

RawEmbeddings(doc, docs, dim) ==
    {ProviderVector(DocInput(doc.text), dim)}
        \cup { MockVector(i) : i \in 1..(Len(docs) + 1) }

\* C20: every vector of the index has been divided by its norm exactly
\* once, whichever call put it there (the initial build, add_document, the
\* rebuild inside remove_document, rebuild_index): the embedding kept on a
\* document is the vector _generate_embeddings returned, never a normalized
\* one, each index vector is such a vector over its own norm, and every
\* index vector that is not the zero vector has norm 1.
C20_NormalizedOnce ==
    /\ \A i \in 1..Len(documents) :
            documents[i].embedding # None
                => documents[i].embedding
                        \in RawEmbeddings(documents[i], documents, model_dim)
    /\ \A i \in 1..IndexSize(index) :
            /\ \E t \in TextIds :
                    index.vectors[i].c
                        \in RawEmbeddings([text |-> t], index.vectors, model_dim)
            /\ SumSq(index.vectors[i].c) # 0
                    => index.vectors[i].d * index.vectors[i].d
                            = SumSq(index.vectors[i].c)

\* a rebuild_index that follows a rebuild_index has rebuilt the index from
\* provider vectors, after documents were added and the store held
\* embeddings already
C20_Witness ==
    /\ ret.op = "rebuild_index"
    /\ ret.repeated
    /\ ~ret.raised
    /\ client /\ provider_up
    /\ IndexSize(index) >= 1
    /\ \A i \in 1..Len(documents) : documents[i].embedding # None
    /\ \A i \in 1..IndexSize(index) : index.vectors[i].d > 1

(***************************************************************************)
(* Properties of retrieval on degenerate inputs, of persistence and of     *)
(* the failing calls.                                                      *)
(***************************************************************************)
\* the provider returns the all-zero vector for the query
ZeroQuery(q) == \A i \in 1..Len(QueryVectors[q]) : QueryVectors[q][i] = 0

\* C21: when the embedding obtained for a query is the all-zero vector,
\* retrieve_documents does not raise and divides by nothing that is zero:
\* the index is searched with the zero vector, every score it returns is
\* the inner product 0 over a non-zero norm, and the call returns a list;
\* it leaves the embedding path only for a top_k the search refuses or
\* pads.
C21_ZeroQuerySearched ==
    (/\ ret.op = "retrieve_documents"
     /\ ret.provider_ok
     /\ model_dim = embedding_dimension
     /\ ZeroQuery(ret.query)
     /\ is_initialized /\ index # None)
        => /\ ~ret.raised
           /\ ret.path \in {"embedding", "fallback"}
           /\ ret.path = "embedding"
                => \A p \in 1..Len(ret.results) :
                        /\ ret.results[p].relevance_score.d > 0
                        /\ ret.results[p].relevance_score.n = 0
           /\ ret.path = "fallback"
                => \/ ret.top_k <= 0
                   \/ ret.top_k > IndexSize(index)

\* a query whose embedding is the zero vector has been searched in an index
\* that holds vectors, and results came back from the search
C21_Witness ==
    /\ ret.op = "retrieve_documents"
    /\ ret.provider_ok
    /\ model_dim = embedding_dimension
    /\ ZeroQuery(ret.query)
    /\ ret.path = "embedding"
    /\ ret.results # << >>

\* C22: after an add_document, remove_document or rebuild_index whose save
\* wrote both files, a fresh BankingRAGService whose initialize() reads
\* them loads with success and holds the same sequence of documents (ids,
\* order, embeddings) and the same sequence of index vectors as the service
\* that saved, and embeds nothing.
C22_SaveLoadRoundTrip ==
    (/\ ret.op \in {"add_document", "remove_document", "rebuild_index"}
     /\ ret.save = "saved")
        => LET fresh == InitializeResult(<< >>, None, << index_file, docs_file >>,
                                         credentials, model_dim, provider_up, "saved")
           IN  /\ ~fresh.raised
               /\ fresh.loaded
               /\ fresh.documents = documents
               /\ fresh.index = index

\* an add_document has saved both files of a store of two documents that
\* carry embeddings and of an index of two vectors
C22_Witness ==
    /\ ret.op = "add_document"
    /\ ret.result
    /\ ret.save = "saved"
    /\ Len(documents) = 2
    /\ IndexSize(index) = 2
    /\ \A i \in 1..Len(documents) : documents[i].embedding # None
    /\ index_file.state = "stored"
    /\ docs_file.state = "stored"

(***************************************************************************)
(* answer_question: initialize when needed, retrieve, generate, report.    *)
(***************************************************************************)
\* answer_question asks retrieve_documents for top_k=3 documents
AnswerTopK == 3

\* a + b for two rational scores
AddScore(a, b) == [n |-> a.n * b.d + b.n * a.d, d |-> a.d * b.d]

RECURSIVE SumScores(_)
SumScores(results) ==
    IF results = << >> THEN [n |-> 0, d |-> 1]
    ELSE AddScore(results[1].relevance_score, SumScores(Tail(results)))

\* avg_confidence: the mean of the relevance scores, 0.0 for no results
AvgConfidence(results) ==
    IF results = << >> THEN [n |-> 0, d |-> 1]
    ELSE [n |-> SumScores(results).n, d |-> SumScores(results).d * Len(results)]

\* _generate_mock_response: the apology for no documents, the template
\* otherwise
GenerateMockResponse(results) ==
    IF results = << >> THEN "apology" ELSE "template"

\* generate_response(query, retrieved_docs): the answer and whether
\* client.chat.completions.create was called; chat_ok is whether that call
\* succeeds
GenerateResponse(hasClient, results, chat_ok) ==
    IF ~hasClient
    THEN [answer |-> GenerateMockResponse(results), chat_called |-> FALSE]
    ELSE IF chat_ok
    THEN [answer |-> "chat_completion", chat_called |-> TRUE]
    ELSE [answer |-> GenerateMockResponse(results), chat_called |-> TRUE]

\* the dictionary answer_question returns for what retrieval and generation
\* gave, and what the call did on its way
AnswerResult(q, raised, hasClient, results, chat_ok) ==
    IF raised
    THEN [op |-> "answer_question", query |-> q, status |-> "error",
          retrieved |-> FALSE, chat_called |-> FALSE]
    ELSE [op |-> "answer_question", query |-> q, status |-> "success",
          retrieved |-> TRUE,
          answer |-> GenerateResponse(hasClient, results, chat_ok).answer,
          chat_called |-> GenerateResponse(hasClient, results, chat_ok).chat_called,
          confidence |-> AvgConfidence(results),
          sources |-> [i \in 1..Len(results) |->
                          [text |-> results[i].document.text,
                           relevance_score |-> results[i].relevance_score]]]

\* answer_question(query)
AnswerQuestion ==
    /\ \E q \in QueryIds, outcome \in SaveOutcomesOn(disk_ok), chat_ok \in BOOLEAN :
        LET init == InitializeResult(documents, index, << index_file, docs_file >>,
                                     credentials, model_dim, provider_up, outcome)
            hasClient == IF is_initialized THEN client ELSE credentials
            docs == IF is_initialized THEN documents ELSE init.documents
            idx == IF is_initialized THEN index ELSE init.index
            files == IF is_initialized THEN << index_file, docs_file >> ELSE init.files
            initialized == is_initialized \/ ~init.raised
            r == RetrieveDocumentsResult(docs, idx, initialized, hasClient,
                                         model_dim, q, AnswerTopK, provider_up)
        IN  /\ client' = hasClient
            /\ documents' = docs
            /\ index' = idx
            /\ is_initialized' = initialized
            /\ index_file' = files[1]
            /\ docs_file' = files[2]
            /\ ret' = AnswerResult(q, ~initialized \/ r.raised, hasClient,
                                   r.results, chat_ok /\ hasClient)
    /\ UNCHANGED << env, threads, removed >>

\* the calls one at a time, answer_question among them
AnswerNext ==
    \/ Initialize
    \/ Main
    \/ AddDocument
    \/ RemoveDocument
    \/ RebuildIndex
    \/ RetrieveDocuments
    \/ AnswerQuestion

AnswerSpec == Init /\ [][AnswerNext]_vars

\* C23: whenever retrieval yields an empty list, answer_question returns
\* status "success", no sources, confidence 0.0 and the fixed "couldn't
\* find relevant information" answer, and has not called the
\* chat-completion provider, with a client and without one.
C23_EmptyRetrievalAnswered ==
    (/\ ret.op = "answer_question"
     /\ ret.retrieved
     /\ ret.sources = << >>)
        => /\ ret.status = "success"
           /\ ret.confidence.n = 0
           /\ ret.answer = "apology"
           /\ ~ret.chat_called

\* C24: whenever add_document returns False, for a duplicate id, a failed
\* embedding or a failed index add (a vector of another length than the
\* index dimension), the store and the index are as they were before the
\* call.
C24_FailedAddChangesNothing ==
    [][(ret'.op = "add_document" /\ ~ret'.result)
        => /\ documents' = documents
           /\ index' = index]_vars

\* C25: remove_document(id) returns success exactly when a document with
\* the id was in the store at the call, whatever the size of the store, a
\* store of that one document included; and a remove_document that returns
\* failure leaves the store as it was.
C25_RemoveSucceedsIffPresent ==
    [][ret'.op = "remove_document"
        => /\ ret'.result <=> ret'.document_id \in Ids(documents)
           /\ ~ret'.result => documents' = documents]_vars

\* C26: rebuild_index does not change which documents the store holds:
\* every id of the store before the call is an id of the store after it,
\* the custom documents add_document added among them, beside the built-in
\* knowledge base.
C26_RebuildKeepsDocuments ==
    [][ret'.op = "rebuild_index"
        => /\ Ids(documents) \subseteq Ids(documents')
           /\ Ids(get_banking_knowledge_base) \subseteq Ids(documents')]_vars

\* get_health_status(): the fields that tell of the store and the index
get_health_status(docs, idx, initialized) ==
    [status |-> IF initialized THEN "healthy" ELSE "initializing",
     documents_loaded |-> Len(docs),
     index_ready |-> idx # None]

\* C27: a rebuild_index that raises leaves the store and the index that
\* were in effect before the call, the old index not being replaced by an
\* empty or a partly filled one, so that get_health_status, where the
\* index held one vector per document before the call, reports index_ready
\* after it only for such an index.
C27_FailedRebuildChangesNothing ==
    [][(ret'.op = "rebuild_index" /\ ret'.raised)
        => /\ documents' = documents
           /\ index' = index
           /\ (/\ get_health_status(documents, index, is_initialized).documents_loaded
                        = IndexSize(index)
               /\ get_health_status(documents', index', is_initialized').index_ready)
                => get_health_status(documents', index', is_initialized').documents_loaded
                        = IndexSize(index')]_vars

(***************************************************************************)
(* Two request threads that add documents with new ids.                    *)
(***************************************************************************)
\* the ids of the custom documents: the ids the knowledge base does not own
CustomIds == (Len(get_banking_knowledge_base) + 1)..(NumIds + 1)

\* add_document lines 467-475 for a custom document, in a store with room
\* for two custom documents
AddCustomCheck(t) ==
    /\ Free(t)
    /\ Len(documents) <= MaxDocs
    /\ IndexSize(index) <= MaxDocs
    /\ \E id \in CustomIds :
        LET document == [id |-> id, text |-> AddText(id), embedding |-> None]
            embedding == generate_embeddings(client, model_dim,
                                             << DocInput(document.text) >>, provider_up)[1]
            overlap == \E u \in Threads \ {t} : Inside(u, "add_document")
        IN  threads' =
                IF id \in Ids(documents)
                THEN [threads EXCEPT ![t] = Returned("add_document", id, FALSE)]
                ELSE [u \in Threads |->
                        IF u = t
                        THEN [pc |-> "add_append", op |-> "add_document", arg |-> id,
                              document |-> [document EXCEPT !.embedding = embedding],
                              overlapped |-> overlap]
                        ELSE IF Inside(u, "add_document")
                        THEN [threads[u] EXCEPT !.overlapped = TRUE]
                        ELSE threads[u]]
    /\ UNCHANGED << fixed, documents, index, disk >>

AddNext ==
    \E t \in Threads :
        \/ AddCustomCheck(t)
        \/ AddAppend(t)
        \/ AddIndex(t)

AddSpec == ConcInit /\ [][AddNext]_vars

\* two request threads have returned success from add_document calls with
\* distinct ids that ran at the same time
BothAdded(t, u) ==
    /\ t # u
    /\ threads[t].pc = "returned" /\ threads[t].op = "add_document"
    /\ threads[u].pc = "returned" /\ threads[u].op = "add_document"
    /\ threads[t].arg # threads[u].arg
    /\ threads[t].result /\ threads[u].result
    /\ threads[t].overlapped /\ threads[u].overlapped

\* C28: in every interleaving of two add_document calls with distinct new
\* ids in two request threads, once both have returned success the store
\* holds both documents, the index holds one vector per document, and the
\* vector at every position is the normalized embedding of the document at
\* that position: the vectors of the two documents are not swapped.
C28_ConcurrentAddsStayPaired ==
    \A t, u \in Threads :
        BothAdded(t, u)
            => /\ {threads[t].arg, threads[u].arg} \subseteq Ids(documents)
               /\ IndexSize(index) = Len(documents)
               /\ \A i \in 1..Len(documents) :
                    /\ index.vectors[i].c = documents[i].embedding
                    /\ index.vectors[i].d * index.vectors[i].d
                            = SumSq(documents[i].embedding)

(***************************************************************************)
(* Properties of what retrieval returns and leaves behind.                 *)
(***************************************************************************)
\* C29: for every integer top_k, zero and the negative ones included, and
\* every query, retrieve_documents returns at most max(0, top_k) results
\* and no document twice, on the embedding path and on the lexical path.
C29_AtMostTopK ==
    (ret.op = "retrieve_documents" /\ ~ret.raised)
        => /\ Len(ret.results) <= Max(0, ret.top_k)
           /\ \A p, r \in 1..Len(ret.results) :
                p # r => ret.results[p].document.id # ret.results[r].document.id

\* list_documents(): the listing it returns
ListDocumentsResult(docs) ==
    [i \in 1..Len(docs) |->
        [id |-> docs[i].id,
         title |-> TextOf(docs[i].text).title,
         category |-> TextOf(docs[i].text).category,
         content_length |-> Len(TextOf(docs[i].text).content)]]

\* list_documents()
ListDocuments ==
    /\ ret' = [op |-> "list_documents", listing |-> ListDocumentsResult(documents)]
    /\ UNCHANGED << env, threads, client, documents, index, is_initialized, disk, removed >>

\* the calls one at a time, list_documents among them
ReadNext ==
    \/ Initialize
    \/ Main
    \/ AddDocument
    \/ RemoveDocument
    \/ RebuildIndex
    \/ RetrieveDocuments
    \/ ListDocuments

ReadSpec == Init /\ [][ReadNext]_vars

\* C30: retrieve_documents and list_documents read only: for every query
\* and top_k, on the embedding path and on the lexical path, and when the
\* call raises or falls back, the documents of the store, their order and
\* their embeddings, and the index are after the call what they were before
\* it.
C30_ReadsChangeNothing ==
    [][ret'.op \in {"retrieve_documents", "list_documents"}
        => /\ documents' = documents
           /\ index' = index]_vars

\* a retrieve_documents has fallen back from the embedding path on a store
\* whose documents carry embeddings, and returned documents
C30_Witness ==
    /\ ret.op = "retrieve_documents"
    /\ ret.path = "fallback"
    /\ ret.results # << >>
    /\ Len(documents) = 2
    /\ IndexSize(index) = 2
    /\ \A i \in 1..Len(documents) : documents[i].embedding # None
====
